---- MODULE Spec2Model ----
(***************************************************************************)
(* Model of activity-report.py: the rate-limited fetcher (github_request,  *)
(* rate_limit_guard, log_error) and the aggregation loop of                *)
(* check_user_activity.                                                    *)
(*                                                                         *)
(* Python values: None is the record None, a str is Str(t) with t its       *)
(* sequence of tokens (f-string concatenation is \o on the tokens), a JSON *)
(* list is List(l) with l a sequence, a dict is a function over its keys   *)
(* (the empty dict is <<>>), an exception is Exc(its class).               *)
(***************************************************************************)
EXTENDS Integers, Sequences, FiniteSets, TLC

\* ------------------------------------------------------------------ bounds
\* Clock ticks per second: time.time() is a float, int() truncates it.
TicksPerSec == 2
\* Largest number of items (commits, events) in one API response.
MaxItems == 1
\* Largest number of repositories the organizations list in one run.
MaxRepos == 2
\* Largest number of non-empty pages of one organization's listing, in the
\* specification of the pagination walk.
MaxWalk == 3

\* ------------------------------------------------------------ Python values
None == [none |-> TRUE]
Str(t) == [s |-> t]
List(l) == [list |-> l]
Exc(class) == [type |-> class]

\* dict.get(key, default)
Get(obj, key, default) == IF key \in DOMAIN obj THEN obj[key] ELSE default

\* Truthiness of a payload: None, [] and "" are falsy.
Falsy(x) == x = None \/ x = List(<<>>) \/ x = Str(<<>>)

\* The tokens of x inside an f-string: None prints as the word None.
Fmt(x) == IF x = None THEN <<"None">> ELSE x.s

\* x in lst
In(x, lst) == \E i \in 1..Len(lst) : lst[i] = x

\* The code point order of the characters timestamps are made of, here digits.
Ord(c) ==
  CASE c = "0" -> 0 [] c = "1" -> 1 [] c = "2" -> 2 [] c = "3" -> 3
    [] c = "4" -> 4 [] c = "5" -> 5 [] c = "6" -> 6 [] c = "7" -> 7
    [] c = "8" -> 8 [] c = "9" -> 9

\* s > t on the tokens of two strings: lexicographic by code point (Python
\* str comparison).
RECURSIVE StrGT(_, _)
StrGT(s, t) ==
  IF s = <<>> THEN FALSE
  ELSE IF t = <<>> THEN TRUE
  ELSE IF Head(s) # Head(t) THEN Ord(Head(s)) > Ord(Head(t))
  ELSE StrGT(Tail(s), Tail(t))

\* ------------------------------------------------------------------- config
GITHUB_API == <<"https://api.github.com">>

\* ------------------------------------------------------------ log_error
\* One line per call: "<timestamp> - <message>".
log_error(log, message) == Append(log, <<"ts", " - ">> \o message)

\* ------------------------------------------------------------ int(header)
Digits == {"0", "1", "2", "3", "4", "5", "6", "7", "8", "9"}

DigitVal(c) == Ord(c)

RECURSIVE DecVal(_, _)
DecVal(s, acc) == IF s = <<>> THEN acc ELSE DecVal(Tail(s), 10 * acc + DigitVal(Head(s)))

\* int(s): the value, or ValueError when s is not a decimal numeral.
ParseInt(s) ==
  IF s # <<>> /\ \A i \in 1..Len(s) : s[i] \in Digits
  THEN [ok |-> TRUE, val |-> DecVal(s, 0)]
  ELSE [ok |-> FALSE, exc |-> Exc("ValueError")]

\* The decimal numeral of n >= 0 (what the API writes in a header).
RECURSIVE Numeral(_)
Numeral(n) ==
  LET d == <<"0", "1", "2", "3", "4", "5", "6", "7", "8", "9">>[(n % 10) + 1]
  IN IF n < 10 THEN <<d>> ELSE Append(Numeral(n \div 10), d)

\* ------------------------------------------------------- HTTP responses
\* What session.get(url) produces: a transport exception, or a response with
\* a status code, headers and a body (a parsed JSON payload, or Unparsable).
\* now is the clock (in ticks) when the guard reads time.time(); overshoot is
\* by how many ticks time.sleep() oversleeps.
Unparsable == [unparsable |-> TRUE]

Response(status, headers, body, now, overshoot) ==
  [exc |-> None, status_code |-> status, headers |-> headers, body |-> body,
   now |-> now, overshoot |-> overshoot]

TransportError(now) ==
  [exc |-> Exc("ConnectionError"), status_code |-> 0, headers |-> <<>>, body |-> Unparsable,
   now |-> now, overshoot |-> 0]

\* A plain 200 response carrying payload p.
Ok(p) == Response(200, <<>>, p, 0, 0)

\* The classes "except Exception" catches (KeyboardInterrupt and SystemExit
\* derive from BaseException only).
ExceptionClasses ==
  {"ConnectionError", "HTTPError", "ValueError", "KeyError", "JSONDecodeError",
   "AttributeError", "TypeError"}

\* ------------------------------------------------------ rate_limit_guard
\* int(time.time())
IntTime(now) == now \div TicksPerSec

\* rate_limit_guard without the one-second margin.
rate_limit_guard_NoMargin(response) ==
  LET h == response.headers
      quiet == [exc |-> None, sleeps |-> FALSE, slept |-> 0]
  IN IF response.status_code = 403 /\ "X-RateLimit-Remaining" \in DOMAIN h
     THEN LET remaining == ParseInt(h["X-RateLimit-Remaining"])
          IN IF ~remaining.ok THEN [quiet EXCEPT !.exc = remaining.exc]
             ELSE IF remaining.val = 0
             THEN IF "X-RateLimit-Reset" \notin DOMAIN h
                  THEN [quiet EXCEPT !.exc = Exc("KeyError")]
                  ELSE LET reset == ParseInt(h["X-RateLimit-Reset"])
                       IN IF ~reset.ok THEN [quiet EXCEPT !.exc = reset.exc]
                          ELSE LET sleep_time == reset.val - IntTime(response.now)
                               IN IF sleep_time < 0
                                  THEN [quiet EXCEPT !.exc = Exc("ValueError")]
                                  ELSE [exc |-> None, sleeps |-> TRUE,
                                        slept |-> sleep_time * TicksPerSec
                                                    + response.overshoot]
             ELSE quiet
     ELSE quiet

\* rate_limit_guard without the test of the remaining quota: any 403 that
\* carries the header sleeps.
rate_limit_guard_AnyRemaining(response) ==
  LET h == response.headers
      quiet == [exc |-> None, sleeps |-> FALSE, slept |-> 0]
  IN IF response.status_code = 403 /\ "X-RateLimit-Remaining" \in DOMAIN h
     THEN LET remaining == ParseInt(h["X-RateLimit-Remaining"])
          IN IF ~remaining.ok THEN [quiet EXCEPT !.exc = remaining.exc]
             ELSE IF "X-RateLimit-Reset" \notin DOMAIN h
                  THEN [quiet EXCEPT !.exc = Exc("KeyError")]
                  ELSE LET reset == ParseInt(h["X-RateLimit-Reset"])
                       IN IF ~reset.ok THEN [quiet EXCEPT !.exc = reset.exc]
                          ELSE LET sleep_time == reset.val - IntTime(response.now) + 1
                               IN IF sleep_time < 0
                                  THEN [quiet EXCEPT !.exc = Exc("ValueError")]
                                  ELSE [exc |-> None, sleeps |-> TRUE,
                                        slept |-> sleep_time * TicksPerSec
                                                    + response.overshoot]
     ELSE quiet

\* The outcome of the guard: the exception it raises (or None), whether
\* time.sleep() ran to its end, and the ticks it blocked.
rate_limit_guard(response) ==
  LET h == response.headers
      quiet == [exc |-> None, sleeps |-> FALSE, slept |-> 0]
  IN IF response.status_code = 403 /\ "X-RateLimit-Remaining" \in DOMAIN h
     THEN LET remaining == ParseInt(h["X-RateLimit-Remaining"])
          IN IF ~remaining.ok THEN [quiet EXCEPT !.exc = remaining.exc]
             ELSE IF remaining.val = 0
             THEN IF "X-RateLimit-Reset" \notin DOMAIN h
                  THEN [quiet EXCEPT !.exc = Exc("KeyError")]
                  ELSE LET reset == ParseInt(h["X-RateLimit-Reset"])
                       IN IF ~reset.ok THEN [quiet EXCEPT !.exc = reset.exc]
                          ELSE LET sleep_time == reset.val - IntTime(response.now) + 1
                               IN IF sleep_time < 0
                                  \* time.sleep: sleep length must be non-negative
                                  THEN [quiet EXCEPT !.exc = Exc("ValueError")]
                                  ELSE [exc |-> None, sleeps |-> TRUE,
                                        slept |-> sleep_time * TicksPerSec
                                                    + response.overshoot]
             ELSE quiet
     ELSE quiet

\* ------------------------------------------------------- github_request
\* response.raise_for_status()
raise_for_status(response) ==
  IF response.status_code >= 400 /\ response.status_code < 600 THEN Exc("HTTPError") ELSE None

\* Lines 38-40 once the guard ended as g: the exception the guard raised,
\* else the one raise_for_status or json() raises, else the parsed body.
AfterGuard(url, resp, g) ==
  LET base == [exc |-> None, val |-> None, sleeps |-> g.sleeps, slept |-> g.slept,
               sent |-> <<url>>]
  IN IF g.exc # None THEN [base EXCEPT !.exc = g.exc]
     ELSE IF raise_for_status(resp) # None
          THEN [base EXCEPT !.exc = raise_for_status(resp)]
     ELSE IF resp.body = Unparsable THEN [base EXCEPT !.exc = Exc("JSONDecodeError")]
     ELSE [base EXCEPT !.val = resp.body]

\* The body of the try block: the value returned or the exception raised,
\* the guard's sleep and the URLs sent.
TryRequest(url, resp) ==
  IF resp.exc # None
  THEN [exc |-> resp.exc, val |-> None, sleeps |-> FALSE, slept |-> 0, sent |-> <<url>>]
  ELSE AfterGuard(url, resp, rate_limit_guard(resp))

\* except requests.RequestException as e
Caught_RequestsOnly(exc) == exc.type \in {"ConnectionError", "HTTPError"}

\* except Exception as e
Caught(exc) == exc.type \in ExceptionClasses

\* Lines 40-43 once the try block ended as t: its value is returned, or the
\* except clause logs one line and returns None, or the exception escapes.
TryExcept(url, t) ==
  IF t.exc = None
  THEN [ret |-> t.val, raised |-> None, lines |-> <<>>,
        sleeps |-> t.sleeps, slept |-> t.slept, sent |-> t.sent]
  ELSE IF Caught(t.exc)
  THEN [ret |-> None, raised |-> None,
        lines |-> log_error(<<>>, <<"Failed request to ">> \o url \o <<": ", t.exc.type>>),
        sleeps |-> t.sleeps, slept |-> t.slept, sent |-> t.sent]
  ELSE [ret |-> None, raised |-> t.exc, lines |-> <<>>,
        sleeps |-> t.sleeps, slept |-> t.slept, sent |-> t.sent]

\* github_request(session, url, headers) when session.get answers resp:
\* ret is the value returned, raised the exception that escapes (or None),
\* lines the error-log lines appended, sleeps/slept the guard's sleep, sent
\* the URLs requested.
github_request(url, resp) == TryExcept(url, TryRequest(url, resp))

\* ------------------------------------------------------------------- URLs
\* f"{GITHUB_API}/orgs/{org}/repos?per_page=100&type=all"
repos_url(org) == GITHUB_API \o <<"/orgs/">> \o Fmt(org) \o <<"/repos?per_page=100&type=all">>

\* f"{repos_url}&page={page}"
page_url(org, page) == repos_url(org) \o <<"&page=">> \o Numeral(page)

\* (datetime.utcnow() - timedelta(days=n)).isoformat() + "Z"
since(days) == <<"utcnow-">> \o Numeral(days) \o <<"d", "Z">>

\* f"{GITHUB_API}/repos/{org}/{repo_name}/commits?sha={sha}&since={since}&per_page=100"
commits_url(org, repo_name, sha, days) ==
  GITHUB_API \o <<"/repos/">> \o Fmt(org) \o <<"/">> \o Fmt(repo_name)
    \o <<"/commits?sha=">> \o Fmt(sha) \o <<"&since=">> \o since(days) \o <<"&per_page=100">>

\* f"{GITHUB_API}/repos/{org}/{repo_name}/branches?per_page=100"
branches_url(org, repo_name) ==
  GITHUB_API \o <<"/repos/">> \o Fmt(org) \o <<"/">> \o Fmt(repo_name)
    \o <<"/branches?per_page=100">>

\* f"{GITHUB_API}/repos/{org}/{repo_name}/events"
events_url(org, repo_name) ==
  GITHUB_API \o <<"/repos/">> \o Fmt(org) \o <<"/">> \o Fmt(repo_name) \o <<"/events">>

\* f"{org}/{repo_name}"
RepoKey(org, repo_name) == Str(Fmt(org) \o <<"/">> \o Fmt(repo_name))

\* ------------------------------------------------------------ user records
\* One entry of user_summary as check_user_activity initialises it.
NewRecord ==
  [default_commit |-> FALSE, any_commit |-> FALSE, any_activity |-> FALSE,
   default_commit_source |-> None, any_commit_source |-> None,
   any_activity_source |-> None, last_push_date |-> None]

\* all([default_commit, any_commit, any_activity])
AllThree(rec) == rec.default_commit /\ rec.any_commit /\ rec.any_activity

\* [uid for uid in user_ids if not all([...])]
RECURSIVE StillActive(_, _)
StillActive(ids, us) ==
  IF ids = <<>> THEN <<>>
  ELSE IF AllThree(us[Head(ids)]) THEN StillActive(Tail(ids), us)
  ELSE <<Head(ids)>> \o StillActive(Tail(ids), us)

\* item.get(key, {}).get("login"): the login, None when it is missing, or
\* AttributeError when the value under key is null.
LoginOf(item, key) ==
  LET who == Get(item, key, <<>>)
  IN IF who = None THEN [exc |-> Exc("AttributeError"), login |-> None]
     ELSE [exc |-> None, login |-> Get(who, "login", None)]

\* commit.get("commit", {}).get("author", {}).get("date")
DateOf(commit) ==
  LET c == Get(commit, "commit", <<>>)
  IN IF c = None THEN [exc |-> Exc("AttributeError"), date |-> None]
     ELSE LET a == Get(c, "author", <<>>)
          IN IF a = None THEN [exc |-> Exc("AttributeError"), date |-> None]
             ELSE [exc |-> None, date |-> Get(a, "date", None)]

\* The first of the items a scan loop processes whose author or actor is
\* uid, None when there is none: the loop processes the items before the
\* first one that makes it raise on its author or actor.
RECURSIVE FirstBy(_, _, _)
FirstBy(items, key, uid) ==
  IF items = <<>> THEN None
  ELSE LET a == LoginOf(Head(items), key)
       IN IF a.exc # None THEN None
          ELSE IF a.login = uid THEN Head(items)
          ELSE FirstBy(Tail(items), key, uid)

\* The users of ids whose items a scan of the payload ret processes.
Met(ids, ret, key) ==
  IF Falsy(ret) THEN {}
  ELSE { uid \in { ids[i] : i \in 1..Len(ids) } : FirstBy(ret.list, key, uid) # None }

\* The source a scan names for an item: repo_key (line 116),
\* repo_key@branch_name (line 133), repo_key:type (line 143).
SourceOf(scan, item, repo_key, branch_name) ==
  CASE scan = "default_commit" -> repo_key
    [] scan = "any_commit" -> Str(Fmt(repo_key) \o <<"@">> \o Fmt(branch_name))
    [] scan = "any_activity" -> Str(Fmt(repo_key) \o <<":">> \o Fmt(Get(item, "type", None)))

\* first_seen after a scan processed the payload ret.
Observe(seen, ids, ret, key, scan, repo_key, branch_name) ==
  [uid \in DOMAIN seen |->
     IF Falsy(ret) \/ ~In(uid, ids) \/ seen[uid][scan] # None THEN seen[uid]
     ELSE LET item == FirstBy(ret.list, key, uid)
          IN IF item = None THEN seen[uid]
             ELSE [seen[uid] EXCEPT ![scan] = SourceOf(scan, item, repo_key, branch_name)]]

\* The body of the default-branch loop without its "not default_commit"
\* test: the last match wins.
DefaultCommitBody_LastWins(us, ids, commit, repo_key) ==
  LET a == LoginOf(commit, "author")
      author == a.login
  IN IF a.exc # None THEN [us |-> us, exc |-> a.exc]
     ELSE IF In(author, ids)
     THEN [us |-> [us EXCEPT ![author].default_commit = TRUE,
                             ![author].default_commit_source = repo_key],
           exc |-> None]
     ELSE [us |-> us, exc |-> None]

\* Lines 113-116: the body of the loop over default-branch commits: the
\* records after it, and the exception it raises (None when it raises none).
DefaultCommitBody(us, ids, commit, repo_key) ==
  LET a == LoginOf(commit, "author")
      author == a.login
  IN IF a.exc # None THEN [us |-> us, exc |-> a.exc]
     ELSE IF In(author, ids) /\ ~us[author].default_commit
     THEN [us |-> [us EXCEPT ![author].default_commit = TRUE,
                             ![author].default_commit_source = repo_key],
           exc |-> None]
     ELSE [us |-> us, exc |-> None]

\* Lines 112-116: for commit in default_commits.
RECURSIVE ScanDefaultCommits(_, _, _, _)
ScanDefaultCommits(us, ids, commits, repo_key) ==
  IF commits = <<>> THEN [us |-> us, exc |-> None]
  ELSE LET step == DefaultCommitBody(us, ids, Head(commits), repo_key)
       IN IF step.exc # None THEN step
          ELSE ScanDefaultCommits(step.us, ids, Tail(commits), repo_key)

\* The body of the 30-day loop without its "not any_commit" test: the last
\* match wins.
BranchCommitBody_LastWins(us, ids, commit, repo_key, branch_name) ==
  LET a == LoginOf(commit, "author")
      author == a.login
  IN IF a.exc # None THEN [us |-> us, exc |-> a.exc]
     ELSE IF In(author, ids)
     THEN [us |-> [us EXCEPT ![author].any_commit = TRUE,
                             ![author].any_commit_source =
                                Str(Fmt(repo_key) \o <<"@">> \o Fmt(branch_name))],
           exc |-> None]
     ELSE [us |-> us, exc |-> None]

\* Lines 130-133: the body of the loop over one branch's 30-day commits.
BranchCommitBody(us, ids, commit, repo_key, branch_name) ==
  LET a == LoginOf(commit, "author")
      author == a.login
  IN IF a.exc # None THEN [us |-> us, exc |-> a.exc]
     ELSE IF In(author, ids) /\ ~us[author].any_commit
     THEN [us |-> [us EXCEPT ![author].any_commit = TRUE,
                             ![author].any_commit_source =
                                Str(Fmt(repo_key) \o <<"@">> \o Fmt(branch_name))],
           exc |-> None]
     ELSE [us |-> us, exc |-> None]

\* Lines 129-133: for commit in branch_commits.
RECURSIVE ScanBranchCommits(_, _, _, _, _)
ScanBranchCommits(us, ids, commits, repo_key, branch_name) ==
  IF commits = <<>> THEN [us |-> us, exc |-> None]
  ELSE LET step == BranchCommitBody(us, ids, Head(commits), repo_key, branch_name)
       IN IF step.exc # None THEN step
          ELSE ScanBranchCommits(step.us, ids, Tail(commits), repo_key, branch_name)

\* The body of the event loop without line 143: the flag is set, its source
\* is not.
EventBody_NoSource(us, ids, event, repo_key) ==
  LET a == LoginOf(event, "actor")
      actor == a.login
  IN IF a.exc # None THEN [us |-> us, exc |-> a.exc]
     ELSE IF In(actor, ids) /\ ~us[actor].any_activity
     THEN [us |-> [us EXCEPT ![actor].any_activity = TRUE], exc |-> None]
     ELSE [us |-> us, exc |-> None]

\* Lines 140-143: the body of the loop over the repository's events.
EventBody(us, ids, event, repo_key) ==
  LET a == LoginOf(event, "actor")
      actor == a.login
  IN IF a.exc # None THEN [us |-> us, exc |-> a.exc]
     ELSE IF In(actor, ids) /\ ~us[actor].any_activity
     THEN [us |-> [us EXCEPT ![actor].any_activity = TRUE,
                             ![actor].any_activity_source =
                                Str(Fmt(repo_key) \o <<":">>
                                      \o Fmt(Get(event, "type", None)))],
           exc |-> None]
     ELSE [us |-> us, exc |-> None]

\* Lines 139-143: for event in events.
RECURSIVE ScanEvents(_, _, _, _)
ScanEvents(us, ids, events, repo_key) ==
  IF events = <<>> THEN [us |-> us, exc |-> None]
  ELSE LET step == EventBody(us, ids, Head(events), repo_key)
       IN IF step.exc # None THEN step
          ELSE ScanEvents(step.us, ids, Tail(events), repo_key)

\* The body of the 90-day loop without its "not any_commit" test.
FallbackBody_NoGuard(us, ids, commit) ==
  LET a == LoginOf(commit, "author")
      author == a.login
      d == DateOf(commit)
      date == d.date
  IN IF a.exc # None THEN [us |-> us, exc |-> a.exc]
     ELSE IF d.exc # None THEN [us |-> us, exc |-> d.exc]
     ELSE IF In(author, ids)
     THEN LET prev_date == us[author].last_push_date
          IN IF Falsy(prev_date)
             THEN [us |-> [us EXCEPT ![author].last_push_date = date], exc |-> None]
             ELSE IF date = None THEN [us |-> us, exc |-> Exc("TypeError")]
             ELSE IF StrGT(date.s, prev_date.s)
             THEN [us |-> [us EXCEPT ![author].last_push_date = date], exc |-> None]
             ELSE [us |-> us, exc |-> None]
     ELSE [us |-> us, exc |-> None]

\* The body of the 90-day loop without the comparison of line 157: the last
\* commit wins.
FallbackBody_LastWins(us, ids, commit) ==
  LET a == LoginOf(commit, "author")
      author == a.login
      d == DateOf(commit)
      date == d.date
  IN IF a.exc # None THEN [us |-> us, exc |-> a.exc]
     ELSE IF d.exc # None THEN [us |-> us, exc |-> d.exc]
     ELSE IF In(author, ids) /\ ~us[author].any_commit
     THEN [us |-> [us EXCEPT ![author].last_push_date = date], exc |-> None]
     ELSE [us |-> us, exc |-> None]

\* Lines 153-158: the body of the loop over one branch's 90-day commits.
FallbackBody(us, ids, commit) ==
  LET a == LoginOf(commit, "author")
      author == a.login
      d == DateOf(commit)
      date == d.date
  IN IF a.exc # None THEN [us |-> us, exc |-> a.exc]
     ELSE IF d.exc # None THEN [us |-> us, exc |-> d.exc]
     ELSE IF In(author, ids) /\ ~us[author].any_commit
     THEN LET prev_date == us[author].last_push_date
          IN IF Falsy(prev_date)
             THEN [us |-> [us EXCEPT ![author].last_push_date = date], exc |-> None]
             \* str > None raises TypeError
             ELSE IF date = None THEN [us |-> us, exc |-> Exc("TypeError")]
             ELSE IF StrGT(date.s, prev_date.s)
             THEN [us |-> [us EXCEPT ![author].last_push_date = date], exc |-> None]
             ELSE [us |-> us, exc |-> None]
     ELSE [us |-> us, exc |-> None]

\* Lines 152-158: for commit in commits.
RECURSIVE ScanFallbackCommits(_, _, _)
ScanFallbackCommits(us, ids, commits) ==
  IF commits = <<>> THEN [us |-> us, exc |-> None]
  ELSE LET step == FallbackBody(us, ids, Head(commits))
       IN IF step.exc # None THEN step
          ELSE ScanFallbackCommits(step.us, ids, Tail(commits))

\* The later of two timestamps, None standing for no timestamp.
LaterOf(a, b) ==
  IF a = None THEN b
  ELSE IF b = None THEN a
  ELSE IF StrGT(b.s, a.s) THEN b ELSE a

\* The timestamps of the commits of items whose author is uid.
DatesBy(items, uid) ==
  { DateOf(items[i]).date :
      i \in { j \in 1..Len(items) : /\ LoginOf(items[j], "author").exc = None
                                    /\ LoginOf(items[j], "author").login = uid
                                    /\ DateOf(items[j]).exc = None } } \ { None }

\* The latest timestamp of a set of timestamps, None when it is empty.
MaxDate(S) == IF S = {} THEN None ELSE CHOOSE d \in S : \A e \in S : ~StrGT(e.s, d.s)

\* latest after a 90-day scan processed all of items: the users of ids that
\* have no 30-day commit keep the later of what they had and what items hold.
SeenLatest(seen, ids, us, items) ==
  [uid \in DOMAIN seen |->
     IF In(uid, ids) /\ ~us[uid].any_commit
     THEN LaterOf(seen[uid], MaxDate(DatesBy(items, uid)))
     ELSE seen[uid]]

\* ------------------------------------------------------------------ inputs
\* The arguments of check_user_activity.
orgs == << Str(<<"o1">>), Str(<<"o2">>) >>

U1 == Str(<<"u1">>)
U2 == Str(<<"u2">>)
\* A login nobody tracks.
UX == Str(<<"ux">>)

\* The logins the API answers with: the second user has no activity anywhere.
Logins == { U1, UX }

UserLists == { <<U1>>, <<U1, U2>> }

\* ------------------------------------------------------------ API payloads
SeqsUpTo(S, n) == UNION { [1..k -> S] : k \in 0..n }

\* The JSON lists of at most n items of S.
Lists(S, n) == { List(l) : l \in SeqsUpTo(S, n) }

Repo(name) == [name |-> Str(name), full_name |-> Str(name), default_branch |-> Str(<<"main">>)]

RepoPages == { List(l) : l \in { <<>>, <<Repo(<<"a">>)>>, <<Repo(<<"a">>), Repo(<<"b">>)>> } }

Branch(name) == [name |-> Str(name)]

BranchLists ==
  { List(l) : l \in { <<>>, <<Branch(<<"main">>)>>,
                      <<Branch(<<"main">>), Branch(<<"dev">>)>> } }

\* The "author"/"actor" part of an item: a login, no such key, or null.
Whos(key) ==
  { (key :> [login |-> u]) : u \in Logins } \cup { <<>>, (key :> None) }

\* Commit timestamps (fixed width, so that they sort as strings).
Dates == { Str(<<"0", "9">>), Str(<<"1", "0">>) }

\* The "commit" part of a commit: with a date, or without one.
Whens == { ("commit" :> [author |-> [date |-> d]]) : d \in Dates } \cup { <<>> }

\* Commits as the 60-day and 30-day queries return them.
RecentCommits == { w @@ ("commit" :> [author |-> [date |-> Str(<<"1", "0">>)]]) : w \in Whos("author") }

\* Commits as the 90-day query returns them.
OldCommits == { w @@ d : w \in Whos("author"), d \in Whens }

Events == { w @@ ("type" :> Str(<<"PushEvent">>)) : w \in Whos("actor") }

\* What session.get may answer instead of a payload.
Failures == { Response(500, <<>>, Unparsable, 0, 0) }

Answers(payloads) == { Ok(p) : p \in payloads } \cup Failures

PageAnswers == Answers(RepoPages)

\* The repository listings end: a page holds no more repositories than are
\* left of the MaxRepos the organizations list, visited being those already
\* entered.
ListAnswers(visited) ==
  { a \in PageAnswers : a.body \in RepoPages => visited + Len(a.body.list) <= MaxRepos }

RecentCommitAnswers == Answers(Lists(RecentCommits, MaxItems))
BranchAnswers == Answers(BranchLists)
EventAnswers == Answers(Lists(Events, MaxItems))
OldCommitAnswers == Answers(Lists(OldCommits, MaxItems))

\* ------------------------------------------------------------------- state
VARIABLES
  pc,            \* where check_user_activity stands
  org_i,         \* index of org in orgs
  page,          \* page
  repos,         \* repos: the page being walked
  repo_i,        \* index of repo in repos
  branches,      \* branches of the repository being scanned
  branch_i,      \* index of branch in branches
  user_ids,      \* user_ids: the users still looked for
  user_summary,  \* user_summary
  summary_keys,  \* the keys of user_summary, in insertion order
  cache,         \* cache
  cache_file,    \* CACHE_FILE: whether it exists, and the mapping it holds
  repo_audit,    \* repo_audit
  logged,        \* the lines the step just taken appended to ERROR_LOG_FILE
                 \* (the file is only ever appended to, and never read)
  sent,          \* the URLs the step just taken requested with session.get
  report,        \* the two sheets of OUTPUT_EXCEL_FILE (None: not written)
  first_seen,    \* per user and scan, the source of the first item of an active
                 \* user the scan processed (None: none yet)
  walk,          \* per organization, the listing requests made and the size of
                 \* each answer (-1: unavailable)
  met,           \* the active users whose items the step just taken processed
  call,          \* a github_request made on its own: url, response and outcome
  latest,        \* per user, the latest timestamp among the commits of theirs the
                 \* 90-day scans processed while they had no 30-day commit
  api,           \* the answers of an API that gives the same answer to the same
                 \* URL every time (on: whether the run is served by it)
  history,       \* the URLs requested so far in a run served by api
  first          \* what an earlier run over the same api left (None: none)

vars == <<pc, org_i, page, repos, repo_i, branches, branch_i, user_ids, user_summary,
          summary_keys, cache, cache_file, repo_audit, logged, sent, report, first_seen, walk, met, call,
          latest, api, history, first>>

\* A checkpoint file left by an earlier run.
OldCache == (RepoKey(Str(<<"o1">>), Str(<<"a">>)) :> [scanned |-> TRUE])

\* CACHE_FILE before the run: absent, or as an earlier run wrote it.
CacheFiles == { [exists |-> FALSE, data |-> <<>>], [exists |-> TRUE, data |-> OldCache] }

\* Lines 58-80: the cache is loaded, the records are initialised.
Init ==
  /\ pc = "list"
  /\ org_i = 1
  /\ page = 1
  /\ repos = <<>>
  /\ repo_i = 0
  /\ branches = <<>>
  /\ branch_i = 0
  /\ user_ids \in UserLists
  /\ summary_keys = user_ids
  /\ user_summary = [uid \in { user_ids[i] : i \in 1..Len(user_ids) } |-> NewRecord]
  /\ cache_file \in CacheFiles
  /\ cache = IF cache_file.exists THEN cache_file.data ELSE <<>>
  /\ repo_audit = <<>>
  /\ logged = <<>>
  /\ sent = <<>>
  /\ report = None
  /\ first_seen = [uid \in { user_ids[i] : i \in 1..Len(user_ids) } |->
                     [default_commit |-> None, any_commit |-> None, any_activity |-> None]]
  /\ walk = [o \in 1..Len(orgs) |-> <<>>]
  /\ met = {}
  /\ call = None
  /\ latest = [uid \in { user_ids[i] : i \in 1..Len(user_ids) } |-> None]
  /\ api = [on |-> FALSE, at |-> <<>>]
  /\ history = <<>>
  /\ first = None

org == orgs[org_i]
repo == repos[repo_i]
repo_name == Get(repo, "name", None)
default_branch == Get(repo, "default_branch", None)
repo_key == RepoKey(org, repo_name)
branch_name == Get(branches[branch_i], "name", None)

\* The effect of one github_request on the error log and on the wire.
Requested(r) ==
  /\ logged' = r.lines
  /\ sent' = r.sent
  /\ history' = IF api.on THEN history \o r.sent ELSE history

\* An exception leaves check_user_activity.
Crash ==
  /\ pc' = "crashed"
  /\ UNCHANGED <<org_i, page, repos, repo_i, branches, branch_i>>

\* The for loop over orgs takes its next element, or ends.
NextOrg ==
  /\ repos' = <<>>
  /\ repo_i' = 0
  /\ IF org_i < Len(orgs)
     THEN org_i' = org_i + 1 /\ page' = 1 /\ pc' = "list"
     ELSE pc' = "report" /\ UNCHANGED <<org_i, page>>

\* The loop over repos with line 175 adding two to the page.
NextRepo_SkipPage(ids) ==
  IF repo_i < Len(repos)
  THEN /\ repo_i' = repo_i + 1
       /\ pc' = "default"
       /\ UNCHANGED <<org_i, page, repos>>
  ELSE IF ids = <<>>
  THEN NextOrg
  ELSE /\ page' = page + 2
       /\ pc' = "list"
       /\ repos' = <<>>
       /\ repo_i' = 0
       /\ UNCHANGED org_i

\* The for loop over repos takes its next element; when it has none, line 173
\* leaves the while loop if no user is left, else line 175 turns the page.
NextRepo(ids) ==
  IF repo_i < Len(repos)
  THEN /\ repo_i' = repo_i + 1
       /\ pc' = "default"
       /\ UNCHANGED <<org_i, page, repos>>
  ELSE IF ids = <<>>
  THEN NextOrg
  ELSE /\ page' = page + 1
       /\ pc' = "list"
       /\ repos' = <<>>
       /\ repo_i' = 0
       /\ UNCHANGED org_i

\* Lines 88-93: one page of the repository listing is requested.
ListRepos(resp) ==
  /\ pc = "list"
  /\ \E r \in { github_request(page_url(org, page), resp) } :
        /\ Requested(r)
        /\ walk' = [walk EXCEPT ![org_i] =
                      Append(@, [url |-> page_url(org, page),
                                 size |-> IF r.ret = None THEN -1 ELSE Len(r.ret.list)])]
        /\ IF r.raised # None THEN Crash
           ELSE IF Falsy(r.ret) THEN NextOrg
           ELSE /\ repos' = r.ret.list
                /\ repo_i' = 1
                /\ pc' = "default"
                /\ UNCHANGED <<org_i, page>>
  /\ UNCHANGED <<branches, branch_i, user_ids, user_summary, summary_keys, cache,
                 cache_file, repo_audit, report, first_seen, call,
                 latest, api, first>>
  /\ met' = {}

\* The repository entry resuming from the checkpoint: a repository whose key
\* the cache already holds is passed over.
VisitRepo_SkipCached(resp) ==
  /\ pc = "default"
  /\ IF repo_key \in DOMAIN cache
     THEN /\ NextRepo(user_ids)
          /\ sent' = <<>>
          /\ logged' = <<>>
          /\ met' = {}
          /\ UNCHANGED <<cache, repo_audit, user_summary, first_seen, history, branches,
                         branch_i>>
     ELSE /\ cache' = cache @@ (repo_key :> <<>>)
          /\ repo_audit' = Append(repo_audit,
                                  [repo |-> repo_key, default_branch |-> default_branch])
          /\ \E r \in { github_request(commits_url(org, repo_name, default_branch, 60), resp) } :
             \E scan \in { IF Falsy(r.ret) THEN [us |-> user_summary, exc |-> None]
                           ELSE ScanDefaultCommits(user_summary, user_ids, r.ret.list,
                                                   repo_key) } :
                /\ Requested(r)
                /\ user_summary' = scan.us
                /\ met' = Met(user_ids, r.ret, "author")
                /\ first_seen' = Observe(first_seen, user_ids, r.ret, "author",
                                         "default_commit", repo_key, None)
                /\ IF r.raised # None \/ scan.exc # None THEN Crash
                   ELSE /\ pc' = "branches"
                        /\ UNCHANGED <<org_i, page, repos, repo_i, branches, branch_i>>
  /\ UNCHANGED <<user_ids, summary_keys, cache_file, report, walk, call,
                 latest, api, first>>

\* Lines 96-116: the repository is entered (cache entry, audit entry) and its
\* default branch is scanned.
VisitRepo(resp) ==
  /\ pc = "default"
  /\ cache' = IF repo_key \in DOMAIN cache THEN cache ELSE cache @@ (repo_key :> <<>>)
  /\ repo_audit' = Append(repo_audit, [repo |-> repo_key, default_branch |-> default_branch])
  /\ \E r \in { github_request(commits_url(org, repo_name, default_branch, 60), resp) } :
     \E scan \in { IF Falsy(r.ret) THEN [us |-> user_summary, exc |-> None]
                   ELSE ScanDefaultCommits(user_summary, user_ids, r.ret.list, repo_key) } :
        /\ Requested(r)
        /\ user_summary' = scan.us
        /\ met' = Met(user_ids, r.ret, "author")
        /\ first_seen' = Observe(first_seen, user_ids, r.ret, "author", "default_commit",
                                 repo_key, None)
        /\ IF r.raised # None \/ scan.exc # None THEN Crash
           ELSE /\ pc' = "branches"
                /\ UNCHANGED <<org_i, page, repos, repo_i, branches, branch_i>>
  /\ UNCHANGED <<user_ids, summary_keys, cache_file, report, walk, call,
                 latest, api, first>>

\* Lines 120-123: the branch list is requested; without one the loop
\* continues with the next repository.
ListBranches(resp) ==
  /\ pc = "branches"
  /\ \E r \in { github_request(branches_url(org, repo_name), resp) } :
        /\ Requested(r)
        /\ IF r.raised # None THEN Crash
           ELSE IF Falsy(r.ret)
           THEN /\ NextRepo(user_ids)
                /\ UNCHANGED <<branches, branch_i>>
           ELSE /\ branches' = r.ret.list
                /\ branch_i' = 1
                /\ pc' = "recent"
                /\ UNCHANGED <<org_i, page, repos, repo_i>>
  /\ UNCHANGED <<user_ids, user_summary, summary_keys, cache, cache_file, repo_audit,
                 report, first_seen, walk, call,
                 latest, api, first>>
  /\ met' = {}

\* Lines 125-133: the 30-day commits of one branch are requested and scanned.
ScanBranch(resp) ==
  /\ pc = "recent"
  /\ \E r \in { github_request(commits_url(org, repo_name, branch_name, 30), resp) } :
     \E scan \in { IF Falsy(r.ret) THEN [us |-> user_summary, exc |-> None]
                   ELSE ScanBranchCommits(user_summary, user_ids, r.ret.list, repo_key,
                                          branch_name) } :
        /\ Requested(r)
        /\ user_summary' = scan.us
        /\ met' = Met(user_ids, r.ret, "author")
        /\ first_seen' = Observe(first_seen, user_ids, r.ret, "author", "any_commit",
                                 repo_key, branch_name)
        /\ IF r.raised # None \/ scan.exc # None THEN Crash
           ELSE /\ IF branch_i < Len(branches)
                   THEN branch_i' = branch_i + 1 /\ pc' = "recent"
                   ELSE branch_i' = 0 /\ pc' = "events"
                /\ UNCHANGED <<org_i, page, repos, repo_i, branches>>
  /\ UNCHANGED <<user_ids, summary_keys, cache, cache_file, repo_audit, report, walk,
                 call,
                 latest, api, first>>

\* Lines 136-143: the events of the repository are requested and scanned.
ScanRepoEvents(resp) ==
  /\ pc = "events"
  /\ \E r \in { github_request(events_url(org, repo_name), resp) } :
     \E scan \in { IF Falsy(r.ret) THEN [us |-> user_summary, exc |-> None]
                   ELSE ScanEvents(user_summary, user_ids, r.ret.list, repo_key) } :
        /\ Requested(r)
        /\ user_summary' = scan.us
        /\ met' = Met(user_ids, r.ret, "actor")
        /\ first_seen' = Observe(first_seen, user_ids, r.ret, "actor", "any_activity",
                                 repo_key, None)
        /\ IF r.raised # None \/ scan.exc # None THEN Crash
           ELSE /\ branch_i' = 1
                /\ pc' = "fallback"
                /\ UNCHANGED <<org_i, page, repos, repo_i, branches>>
  /\ UNCHANGED <<user_ids, summary_keys, cache, cache_file, repo_audit, report, walk,
                 call,
                 latest, api, first>>

\* Lines 146-158: the 90-day commits of one branch are requested and scanned.
ScanFallback(resp) ==
  /\ pc = "fallback"
  /\ \E r \in { github_request(commits_url(org, repo_name, branch_name, 90), resp) } :
     \E scan \in { IF Falsy(r.ret) THEN [us |-> user_summary, exc |-> None]
                   ELSE ScanFallbackCommits(user_summary, user_ids, r.ret.list) } :
        /\ Requested(r)
        /\ met' = Met(user_ids, r.ret, "author")
        /\ user_summary' = scan.us
        /\ latest' = IF Falsy(r.ret) \/ scan.exc # None THEN latest
                     ELSE SeenLatest(latest, user_ids, user_summary, r.ret.list)
        /\ IF r.raised # None \/ scan.exc # None THEN Crash
           ELSE /\ IF branch_i < Len(branches)
                   THEN branch_i' = branch_i + 1 /\ pc' = "fallback"
                   ELSE branch_i' = 0 /\ pc' = "save"
                /\ UNCHANGED <<org_i, page, repos, repo_i, branches>>
  /\ UNCHANGED <<user_ids, summary_keys, cache, cache_file, repo_audit, report,
                 first_seen, walk, call,
                 api, first>>

\* Lines 160-175: the cache is written, the satisfied users are dropped, and
\* the loops go on or are left.
SaveProgress ==
  /\ pc = "save"
  /\ cache_file' = [exists |-> TRUE, data |-> cache]
  /\ user_ids' = StillActive(user_ids, user_summary)
  /\ IF user_ids' = <<>> THEN NextOrg ELSE NextRepo(user_ids')
  /\ branches' = <<>>
  /\ sent' = <<>>
  /\ logged' = <<>>
  /\ met' = {}
  /\ UNCHANGED <<branch_i, user_summary, summary_keys, cache, repo_audit, report,
                 first_seen, walk, call,
                 latest, api, history, first>>

\* Lines 180-188: one row of the Summary sheet.
SummaryRow(uid, rec) ==
  [user_id |-> uid,
   commit_to_default_branch |-> rec.default_commit,
   commit_to_any_branch |-> rec.any_commit,
   any_activity |-> rec.any_activity,
   last_push_seen |-> rec.last_push_date,
   source_default_commit |-> rec.default_commit_source,
   source_any_commit |-> rec.any_commit_source,
   source_any_activity |-> rec.any_activity_source]

\* The report with the Summary rows taken from user_ids: only the users
\* still looked for get a row.
WriteReport_ActiveOnly ==
  /\ pc = "report"
  /\ report' = [Summary |-> [i \in 1..Len(user_ids) |->
                               SummaryRow(user_ids[i], user_summary[user_ids[i]])],
                RepoAudit |-> repo_audit]
  /\ pc' = "done"
  /\ sent' = <<>>
  /\ logged' = <<>>
  /\ met' = {}
  /\ UNCHANGED <<org_i, page, repos, repo_i, branches, branch_i, user_ids, user_summary,
                 summary_keys, cache, cache_file, repo_audit, first_seen, walk, call,
                 latest, api, history, first>>

\* Lines 177-198: the two sheets are built and written.
WriteReport ==
  /\ pc = "report"
  /\ report' = [Summary |-> [i \in 1..Len(summary_keys) |->
                               SummaryRow(summary_keys[i], user_summary[summary_keys[i]])],
                RepoAudit |-> repo_audit]
  /\ pc' = "done"
  /\ sent' = <<>>
  /\ logged' = <<>>
  /\ met' = {}
  /\ UNCHANGED <<org_i, page, repos, repo_i, branches, branch_i, user_ids, user_summary,
                 summary_keys, cache, cache_file, repo_audit, first_seen, walk, call,
                 latest, api, history, first>>

Next ==
  \/ \E resp \in ListAnswers(Len(repo_audit)) : ListRepos(resp)
  \/ \E resp \in RecentCommitAnswers : VisitRepo(resp)
  \/ \E resp \in BranchAnswers : ListBranches(resp)
  \/ \E resp \in RecentCommitAnswers : ScanBranch(resp)
  \/ \E resp \in EventAnswers : ScanRepoEvents(resp)
  \/ \E resp \in OldCommitAnswers : ScanFallback(resp)
  \/ SaveProgress
  \/ WriteReport

Spec == Init /\ [][Next]_vars

\* ---------------------------------------------------------------- fetcher
\* github_request on its own, against every kind of answer session.get can
\* give: transport errors, statuses, rate-limit headers that are missing,
\* malformed, exhausted or not, reset times ahead and past, bodies that parse
\* or do not.
Clocks == { 200, 201 }

RemainingHeaders ==
  { <<>> } \cup { ("X-RateLimit-Remaining" :> v) : v \in { <<"0">>, <<"5">>, <<"x">> } }

\* The reset headers a response made at clock now may carry.
ResetHeaders(now) ==
  { <<>>, ("X-RateLimit-Reset" :> <<"s", "o", "o", "n">>) }
    \cup { ("X-RateLimit-Reset" :> Numeral(IntTime(now) + d)) : d \in { 5, 0 } }
    \cup { ("X-RateLimit-Reset" :> Numeral(IntTime(now) - d)) : d \in { 1, 3 } }

Bodies == { List(<<>>), List(<<Repo(<<"a">>)>>), Unparsable }

HttpAnswers ==
  { TransportError(now) : now \in Clocks }
    \cup UNION { { Response(st, rem @@ res, b, now, over) :
                     st \in { 200, 403, 404, 500 }, rem \in RemainingHeaders,
                     res \in ResetHeaders(now), b \in Bodies, over \in 0..(TicksPerSec - 1) } :
                 now \in Clocks }

FetchUrls == { page_url(orgs[1], 1), events_url(orgs[1], Str(<<"a">>)) }

\* One call of github_request(session, url, headers), answered by resp.
Request(url, resp) ==
  /\ call = None
  /\ \E r \in { github_request(url, resp) } :
        /\ call' = [url |-> url, resp |-> resp, out |-> r]
        /\ Requested(r)
  /\ UNCHANGED <<pc, org_i, page, repos, repo_i, branches, branch_i, user_ids,
                 user_summary, summary_keys, cache, cache_file, repo_audit, report,
                 first_seen, walk, met,
                 latest, api, first>>

NextFetch == \E url \in FetchUrls, resp \in HttpAnswers : Request(url, resp)

SpecFetch == Init /\ [][NextFetch]_vars

\* ------------------------------------------------------- pagination walk
\* check_user_activity against organizations whose listings are long (up to
\* MaxWalk pages of one repository each) and whose repositories are plain:
\* one branch, at most one commit or event per answer, nothing older than 30
\* days.
WalkPageAnswers == Answers({ List(<<>>), List(<<Repo(<<"a">>)>>) })

WalkListAnswers(pg) == IF pg > MaxWalk THEN Answers({ List(<<>>) }) ELSE WalkPageAnswers

WalkCommitAnswers ==
  { Ok(List(<<>>)),
    Ok(List(<< ("author" :> [login |-> U1])
                 @@ ("commit" :> [author |-> [date |-> Str(<<"1", "0">>)]]) >>)) }

WalkBranchAnswers == Answers({ List(<<Branch(<<"main">>)>>) })

WalkEventAnswers ==
  { Ok(List(<<>>)),
    Ok(List(<< ("actor" :> [login |-> U1]) @@ ("type" :> Str(<<"PushEvent">>)) >>)) }

NextWalk ==
  \/ \E resp \in WalkListAnswers(page) : ListRepos(resp)
  \/ \E resp \in WalkCommitAnswers : VisitRepo(resp)
  \/ \E resp \in WalkBranchAnswers : ListBranches(resp)
  \/ \E resp \in WalkCommitAnswers : ScanBranch(resp)
  \/ \E resp \in WalkEventAnswers : ScanRepoEvents(resp)
  \/ \E resp \in { Ok(List(<<>>)) } : ScanFallback(resp)
  \/ SaveProgress
  \/ WriteReport

SpecWalk == Init /\ [][NextWalk]_vars

\* --------------------------------------------------------------- two runs
\* check_user_activity run twice with the same arguments against an API that
\* answers a URL the same way every time, the clock read the same in both
\* runs (the since parameters are equal).
Commit(u, d) == ("author" :> [login |-> u]) @@ ("commit" :> [author |-> [date |-> d]])

FixedCommitAnswers ==
  { Ok(List(<<>>)), Ok(List(<<Commit(U1, Str(<<"1", "0">>))>>)),
    Ok(List(<<Commit(UX, Str(<<"1", "0">>))>>)) }

FixedOldAnswers == { Ok(List(<<>>)), Ok(List(<<Commit(U1, Str(<<"0", "9">>))>>)) }

FixedEventAnswers ==
  { Ok(List(<<>>)),
    Ok(List(<< ("actor" :> [login |-> U1]) @@ ("type" :> Str(<<"PushEvent">>)) >>)) }

RepoA == Str(<<"a">>)
RepoB == Str(<<"b">>)
Main == Str(<<"main">>)

\* The APIs: what each URL is answered with; a URL not listed is answered
\* with an empty list.
Apis ==
  { [on |-> TRUE,
     at |-> (page_url(orgs[1], 1) :> p1) @@ (page_url(orgs[2], 1) :> p2)
              @@ (commits_url(orgs[1], RepoA, Main, 60) :> c60)
              @@ (branches_url(orgs[1], RepoA) :> br)
              @@ (commits_url(orgs[1], RepoA, Main, 30) :> c30)
              @@ (events_url(orgs[1], RepoA) :> ev)
              @@ (commits_url(orgs[1], RepoA, Main, 90) :> c90)
              @@ (commits_url(orgs[1], RepoB, Main, 60) :> d60)] :
      p1 \in Answers({ List(<<Repo(<<"a">>)>>), List(<<Repo(<<"a">>), Repo(<<"b">>)>>) }),
      p2 \in { Ok(List(<<>>)), Ok(List(<<Repo(<<"a">>)>>)) },
      c60 \in FixedCommitAnswers,
      br \in Answers({ List(<<>>), List(<<Branch(<<"main">>)>>) }),
      c30 \in FixedCommitAnswers,
      ev \in FixedEventAnswers,
      c90 \in FixedOldAnswers,
      d60 \in { Ok(List(<<>>)), Ok(List(<<Commit(U1, Str(<<"1", "0">>))>>)) } }

\* What session.get answers for url.
Served(url) == IF url \in DOMAIN api.at THEN api.at[url] ELSE Ok(List(<<>>))

\* A checkpoint file with a key no organization lists.
StaleCache == OldCache @@ (RepoKey(Str(<<"o9">>), Str(<<"z">>)) :> [scanned |-> TRUE])

Empty(file) == ~file.exists \/ DOMAIN file.data = {}

\* The first run starts without a checkpoint file.
InitTwice ==
  /\ pc = "list"
  /\ org_i = 1
  /\ page = 1
  /\ repos = <<>>
  /\ repo_i = 0
  /\ branches = <<>>
  /\ branch_i = 0
  /\ user_ids \in UserLists
  /\ summary_keys = user_ids
  /\ user_summary = [uid \in { user_ids[i] : i \in 1..Len(user_ids) } |-> NewRecord]
  /\ cache_file = [exists |-> FALSE, data |-> <<>>]
  /\ cache = <<>>
  /\ repo_audit = <<>>
  /\ logged = <<>>
  /\ sent = <<>>
  /\ report = None
  /\ first_seen = [uid \in { user_ids[i] : i \in 1..Len(user_ids) } |->
                     [default_commit |-> None, any_commit |-> None, any_activity |-> None]]
  /\ walk = [o \in 1..Len(orgs) |-> <<>>]
  /\ met = {}
  /\ call = None
  /\ latest = [uid \in { user_ids[i] : i \in 1..Len(user_ids) } |-> None]
  /\ api \in Apis
  /\ history = <<>>
  /\ first = None

\* Lines 58-80 with the user_ids of the run before: the list the last run
\* filtered is taken for the argument.
Start_StaleUsers(file) ==
  /\ pc' = "list"
  /\ org_i' = 1
  /\ page' = 1
  /\ repos' = <<>>
  /\ repo_i' = 0
  /\ branches' = <<>>
  /\ branch_i' = 0
  /\ user_ids' = user_ids
  /\ user_summary' = [uid \in DOMAIN user_summary |-> NewRecord]
  /\ cache_file' = file
  /\ cache' = IF file.exists THEN file.data ELSE <<>>
  /\ repo_audit' = <<>>
  /\ logged' = <<>>
  /\ sent' = <<>>
  /\ report' = None
  /\ first_seen' = [uid \in DOMAIN user_summary |->
                      [default_commit |-> None, any_commit |-> None, any_activity |-> None]]
  /\ walk' = [o \in 1..Len(orgs) |-> <<>>]
  /\ met' = {}
  /\ latest' = [uid \in DOMAIN user_summary |-> None]
  /\ history' = <<>>
  /\ UNCHANGED <<summary_keys, call, api>>

\* Lines 58-80: check_user_activity is called again with the same arguments,
\* CACHE_FILE being file: the cache is loaded, the records are initialised.
Start(file) ==
  /\ pc' = "list"
  /\ org_i' = 1
  /\ page' = 1
  /\ repos' = <<>>
  /\ repo_i' = 0
  /\ branches' = <<>>
  /\ branch_i' = 0
  /\ user_ids' = summary_keys
  /\ user_summary' = [uid \in DOMAIN user_summary |-> NewRecord]
  /\ cache_file' = file
  /\ cache' = IF file.exists THEN file.data ELSE <<>>
  /\ repo_audit' = <<>>
  /\ logged' = <<>>
  /\ sent' = <<>>
  /\ report' = None
  /\ first_seen' = [uid \in DOMAIN user_summary |->
                      [default_commit |-> None, any_commit |-> None, any_activity |-> None]]
  /\ walk' = [o \in 1..Len(orgs) |-> <<>>]
  /\ met' = {}
  /\ latest' = [uid \in DOMAIN user_summary |-> None]
  /\ history' = <<>>
  /\ UNCHANGED <<summary_keys, call, api>>

\* CACHE_FILE before the second run: removed, emptied, as the first run left
\* it, or replaced by another mapping.
Resumes ==
  { [exists |-> FALSE, data |-> <<>>], [exists |-> TRUE, data |-> <<>>], cache_file,
    [exists |-> TRUE, data |-> OldCache], [exists |-> TRUE, data |-> StaleCache] }

\* The first run has returned; what it left is kept and the second begins.
Rerun ==
  /\ pc = "done"
  /\ first = None
  /\ \E file \in Resumes :
        /\ Start(file)
        /\ first' = [report |-> report, history |-> history, saved |-> cache_file,
                     resumed |-> file]

NextTwice ==
  \/ pc = "list" /\ ListRepos(Served(page_url(org, page)))
  \/ pc = "default" /\ VisitRepo(Served(commits_url(org, repo_name, default_branch, 60)))
  \/ pc = "branches" /\ ListBranches(Served(branches_url(org, repo_name)))
  \/ pc = "recent" /\ ScanBranch(Served(commits_url(org, repo_name, branch_name, 30)))
  \/ pc = "events" /\ ScanRepoEvents(Served(events_url(org, repo_name)))
  \/ pc = "fallback" /\ ScanFallback(Served(commits_url(org, repo_name, branch_name, 90)))
  \/ SaveProgress
  \/ WriteReport
  \/ Rerun

SpecTwice == InitTwice /\ [][NextTwice]_vars

\* ================================================================= claims
Tracked == DOMAIN user_summary

Flags == { "default_commit", "any_commit", "any_activity" }

SourceField(flag) ==
  CASE flag = "default_commit" -> "default_commit_source"
    [] flag = "any_commit" -> "any_commit_source"
    [] flag = "any_activity" -> "any_activity_source"

\* The source paired with a flag is a string that is not empty.
HasSource(rec, flag) ==
  /\ rec[SourceField(flag)] # None
  /\ rec[SourceField(flag)] # Str(<<>>)

\* C1: for every tracked user and each of the three flags, a flag that is
\* true stays true, a true flag has a source that is neither null nor empty,
\* and a source is never reset to null.
C1_FlagsMonotoneWithSource ==
  /\ [](\A u \in Tracked, f \in Flags : user_summary[u][f] => HasSource(user_summary[u], f))
  /\ [][\A u \in Tracked, f \in Flags :
          /\ user_summary[u][f] => user_summary'[u][f]
          /\ user_summary[u][SourceField(f)] # None
               => user_summary'[u][SourceField(f)] # None]_vars

\* A flag set in the first repository is still set, with that repository as
\* its source, after the second repository was scanned up to its events.
C1_Witness ==
  /\ Len(repo_audit) = 2
  /\ pc = "fallback"
  /\ user_summary[U1].any_activity
  /\ user_summary[U1].any_activity_source = Str(Fmt(repo_audit[1].repo) \o <<":", "PushEvent">>)
  /\ repo_audit[1].repo # repo_audit[2].repo

\* C2: first match wins: for every user and flag, the source is that of the
\* first item of the then-active user the scan processed (repoKey,
\* repoKey@branchName, repoKey:eventType), the flag is true exactly when
\* there was one, and no later item changes the source.
C2_FirstMatchWins ==
  \A u \in Tracked, f \in Flags :
    /\ user_summary[u][SourceField(f)] = first_seen[u][f]
    /\ user_summary[u][f] <=> first_seen[u][f] # None

\* The 30-day scan of the second branch processed a commit of a user whose
\* any_commit source names the first branch.
C2_Witness ==
  /\ pc = "events"
  /\ Len(branches) = 2
  /\ U1 \in met
  /\ user_summary[U1].any_commit_source
       = Str(Fmt(repo_key) \o <<"@">> \o Fmt(branches[1].name))

\* The elements of s are elements of t, in the order of t.
RECURSIVE SubSeqOf(_, _)
SubSeqOf(s, t) ==
  IF s = <<>> THEN TRUE
  ELSE IF t = <<>> THEN FALSE
  ELSE IF Head(s) = Head(t) THEN SubSeqOf(Tail(s), Tail(t))
  ELSE SubSeqOf(s, Tail(t))

\* C3: user_ids never grows, and no step changes any field (last_push_date
\* included) of the record of a user whose three flags are all true.
C3_SatisfiedUserUntouched ==
  [][/\ SubSeqOf(user_ids', user_ids)
     /\ \A u \in Tracked : AllThree(user_summary[u]) => user_summary'[u] = user_summary[u]]_vars

\* The 90-day scan processed a commit of a user whose three flags are true
\* (the user is still in user_ids: the list is cut at the end of the visit).
C3_Witness ==
  /\ pc = "save"
  /\ U1 \in met
  /\ AllThree(user_summary[U1])

\* C4: once user_ids is empty, no further request is sent and no further
\* repository is entered, in this organization or a later one.
C4_EarlyTermination ==
  [][user_ids = <<>> => sent' = <<>> /\ repo_audit' = repo_audit]_vars

\* The repositories entered and left: all of repo_audit, but the one being
\* scanned.
Left ==
  IF pc \in { "list", "default", "report", "done" }
  THEN { repo_audit[i].repo : i \in 1..Len(repo_audit) }
  ELSE { repo_audit[i].repo : i \in 1..(Len(repo_audit) - 1) }

\* C5: when the loop moves on from a repository, or the run ends, the
\* checkpoint file holds that repository's key.
C5_CheckpointAfterEveryRepo ==
  pc # "crashed" => \A k \in Left : cache_file.exists /\ k \in DOMAIN cache_file.data

\* C6: whatever the branch list request returns, the scan of the repository
\* goes on: to the 30-day scan of its branches, or to its events.
C6_ScanContinuesWithoutBranches ==
  [][pc = "branches" => pc' \in { "recent", "events" }]_vars

\* ----------------------------------------------------------------- fetcher
Called == call # None

\* The call failed: session.get raised, the status is an error, or the body
\* does not parse.
Failed(resp) ==
  \/ resp.exc # None
  \/ resp.status_code >= 400
  \/ resp.body = Unparsable

\* The response is a 403 with no quota left and a reset that parses.
Throttled(resp) ==
  /\ resp.exc = None
  /\ resp.status_code = 403
  /\ "X-RateLimit-Remaining" \in DOMAIN resp.headers
  /\ resp.headers["X-RateLimit-Remaining"] = <<"0">>
  /\ "X-RateLimit-Reset" \in DOMAIN resp.headers
  /\ ParseInt(resp.headers["X-RateLimit-Reset"]).ok

ResetOf(resp) == ParseInt(resp.headers["X-RateLimit-Reset"]).val

\* C7: github_request never raises; a call that failed returns None and
\* appended one line, which names the URL and the error; a call that did
\* not fail returns the payload and appended nothing.
C7_NeverRaises ==
  Called =>
    /\ call.out.raised = None
    /\ Failed(call.resp) =>
         /\ call.out.ret = None
         /\ Len(logged) = 1
         /\ \E i \in 1..Len(logged[1]) :
              /\ SubSeq(logged[1], i, i + Len(call.url) - 1) = call.url
              /\ logged[1][Len(logged[1])] \in ExceptionClasses
    /\ ~Failed(call.resp) => call.out.ret = call.resp.body /\ logged = <<>>

\* A throttled response whose reset lies in the past (time.sleep refuses the
\* negative length) was turned into None and one line.
C7_Witness ==
  /\ Called
  /\ Throttled(call.resp)
  /\ ResetOf(call.resp) < IntTime(call.resp.now) - 1
  /\ call.out.ret = None
  /\ Len(logged) = 1

\* C8: after the sleep of a throttled response the same URL is requested a
\* second time.
C8_RetriesOnce ==
  (Called /\ Throttled(call.resp) /\ call.out.sleeps)
    => call.out.sent = <<call.url, call.url>>

\* A 403 with no quota left whose reset is five seconds after now.
ResetInFive(resp) == Throttled(resp) /\ ResetOf(resp) = IntTime(resp.now) + 5

\* C9 as stated: with reset = now + 5 the guard blocks for at least 5 and
\* less than 6 seconds.
C9_BlocksFiveToSix ==
  (Called /\ ResetInFive(call.resp))
    => /\ call.out.slept >= 5 * TicksPerSec
       /\ call.out.slept < 6 * TicksPerSec

\* C9: with reset = now + 5 the guard asks for a sleep of reset - now + 1 = 6
\* seconds, so it blocks for at least 6 seconds.
C9_BlocksSix ==
  (Called /\ ResetInFive(call.resp))
    => /\ call.out.sleeps
       /\ call.out.slept - call.resp.overshoot = 6 * TicksPerSec
       /\ call.out.slept >= 6 * TicksPerSec

C9_Witness ==
  /\ Called
  /\ ResetInFive(call.resp)
  /\ call.out.sleeps
  /\ call.resp.overshoot > 0

\* --------------------------------------------------------- pagination walk
\* The organization at index o is done with.
OrgDone(o) == org_i > o \/ pc \in { "report", "done" }

\* The repositories of the organization at index o that were entered.
Visits(o) ==
  Cardinality({ i \in 1..Len(repo_audit) :
                  repo_audit[i].repo.s[1] = orgs[o].s[1] })

RECURSIVE SumSizes(_)
SumSizes(w) == IF w = <<>> THEN 0 ELSE (IF Head(w).size > 0 THEN Head(w).size ELSE 0) + SumSizes(Tail(w))

\* C10: the listing of each organization is requested page 1, 2, 3, ... with
\* no page skipped or repeated, and never beyond the first page that is
\* unavailable or empty; when user_ids never empties, the walk of an
\* organization ends on such a page, and k non-empty pages before it make
\* k + 1 requests and k batches, each of whose repositories is entered.
C10_PaginationWalk ==
  \A o \in 1..Len(orgs) :
    LET w == walk[o]
    IN /\ \A i \in 1..Len(w) : w[i].url = page_url(orgs[o], i)
       /\ \A i \in 1..(Len(w) - 1) : w[i].size > 0
       /\ (OrgDone(o) /\ user_ids # <<>>)
            => /\ Len(w) >= 1
               /\ w[Len(w)].size <= 0
               /\ Visits(o) = SumSizes(w)

\* Three non-empty pages, then an empty one: four requests, three batches.
C10_Witness ==
  /\ OrgDone(1)
  /\ user_ids # <<>>
  /\ Len(walk[1]) = 4
  /\ walk[1][4].size = 0
  /\ Visits(1) = 3

\* ------------------------------------------------------- incomplete items
\* C11: an item whose author or actor is absent, null or without a login, or
\* whose commit date is absent, is skipped: no exception leaves
\* check_user_activity because of it, and the run goes on to its report.
C11_MissingFieldSkipped == pc # "crashed"

\* ------------------------------------------------------------------ report
\* The rows of the Summary sheet that carry the user uid.
RowsOf(uid) == { i \in 1..Len(report.Summary) : report.Summary[i].user_id = uid }

\* C12: the Summary sheet has exactly one row for every user passed in,
\* removed from user_ids or not, carrying the final values of that user's
\* record; the RepoAudit sheet is the sequence of visits, in visit order, each
\* with the key and default branch of a repository its organization listed.
C12_ReportComplete ==
  report # None =>
    /\ Len(report.Summary) = Cardinality(Tracked)
    /\ \A u \in Tracked :
         /\ Cardinality(RowsOf(u)) = 1
         /\ \A i \in RowsOf(u) :
              LET row == report.Summary[i]
                  rec == user_summary[u]
              IN /\ row.commit_to_default_branch = rec.default_commit
                 /\ row.commit_to_any_branch = rec.any_commit
                 /\ row.any_activity = rec.any_activity
                 /\ row.last_push_seen = rec.last_push_date
                 /\ row.source_default_commit = rec.default_commit_source
                 /\ row.source_any_commit = rec.any_commit_source
                 /\ row.source_any_activity = rec.any_activity_source
    /\ report.RepoAudit = repo_audit
    /\ \A i \in 1..Len(repo_audit) :
         /\ repo_audit[i].default_branch = Str(<<"main">>)
         /\ \E o \in 1..Len(orgs), n \in { <<"a">>, <<"b">> } :
              repo_audit[i].repo = RepoKey(orgs[o], Str(n))
    /\ \A o \in 1..Len(orgs) : Visits(o) <= SumSizes(walk[o])

\* The report of a run that visited two repositories and dropped a satisfied
\* user from user_ids on the way.
C12_Witness ==
  /\ report # None
  /\ Len(user_ids) < Len(summary_keys)
  /\ Len(repo_audit) = 2
  /\ AllThree(user_summary[U1])

\* C13: in the report, a user has default_commit exactly when some visited
\* repository's default-branch answer held a commit of theirs while they were
\* still looked for, and the source is the key of the first such repository
\* in visit order; a user no answer ever matched has all three flags false.
C13_DefaultBranchDetected ==
  report # None =>
    \A u \in Tracked : \A i \in RowsOf(u) :
      LET row == report.Summary[i]
          seen == first_seen[u]
      IN /\ row.commit_to_default_branch <=> seen.default_commit # None
         /\ row.source_default_commit = seen.default_commit
         /\ row.commit_to_default_branch
              => \E k \in 1..Len(repo_audit) : row.source_default_commit = repo_audit[k].repo
         /\ (\A f \in Flags : seen[f] = None)
              => /\ ~row.commit_to_default_branch
                 /\ ~row.commit_to_any_branch
                 /\ ~row.any_activity

\* The report of a run over two repositories in which the first user's
\* default-branch commit was found in the first one and the second user was
\* never matched.
C13_Witness ==
  /\ report # None
  /\ Len(repo_audit) = 2
  /\ RowsOf(U2) # {}
  /\ \E i \in RowsOf(U1) :
       /\ report.Summary[i].commit_to_default_branch
       /\ report.Summary[i].source_default_commit = repo_audit[1].repo
       /\ repo_audit[1].repo # repo_audit[2].repo

\* ------------------------------------------------------ when the guard sleeps
\* The response is a 403 whose X-RateLimit-Remaining header is present and
\* reads 0.
Exhausted(resp) ==
  /\ resp.exc = None
  /\ resp.status_code = 403
  /\ "X-RateLimit-Remaining" \in DOMAIN resp.headers
  /\ ParseInt(resp.headers["X-RateLimit-Remaining"]).ok
  /\ ParseInt(resp.headers["X-RateLimit-Remaining"]).val = 0

\* reset - int(now) + 1, in seconds.
SleepSeconds(resp) == ResetOf(resp) - IntTime(resp.now) + 1

\* C16 as stated: the guard sleeps exactly when the response is a 403 with
\* the remaining-quota header present and 0, and then for reset - now + 1
\* seconds; otherwise it does not sleep.
C16_SleepsIffExhausted ==
  Called =>
    /\ call.out.sleeps <=> Exhausted(call.resp)
    /\ call.out.sleeps
         => call.out.slept - call.resp.overshoot = SleepSeconds(call.resp) * TicksPerSec
    /\ ~call.out.sleeps => call.out.slept = 0

\* C16: the guard sleeps exactly when the response is a 403 with the
\* remaining-quota header present and 0, the reset header present and a
\* numeral, and reset - now + 1 not negative; it then sleeps reset - now + 1
\* seconds. In every other case it does not sleep, and a call that fails
\* logs one line and returns None.
C16_SleepsIffExhaustedAndResetAhead ==
  Called =>
    /\ call.out.sleeps <=> (Throttled(call.resp) /\ SleepSeconds(call.resp) >= 0)
    /\ call.out.sleeps
         => call.out.slept - call.resp.overshoot = SleepSeconds(call.resp) * TicksPerSec
    /\ ~call.out.sleeps => call.out.slept = 0
    /\ (Exhausted(call.resp) /\ ~call.out.sleeps)
         => call.out.ret = None /\ call.out.raised = None /\ Len(logged) = 1

\* A 403 with no quota left whose reset passed a second ago: the guard sleeps
\* for zero seconds.
C16_Witness ==
  /\ Called
  /\ Throttled(call.resp)
  /\ SleepSeconds(call.resp) = 0
  /\ call.out.sleeps
  /\ call.out.slept = call.resp.overshoot

\* ------------------------------------------------- pages of other listings
\* url asks for the commits of a branch.
IsCommitListing(url) == Len(url) >= 7 /\ url[6] = "/commits?sha="

\* C17: a commit listing is walked page after page: after a page that held a
\* commit of a user looked for, the next request asks the same listing (the
\* same repository, branch and window) for its next page.
C17_CommitListingsPaginated ==
  [][(sent # <<>> /\ IsCommitListing(sent[1]) /\ met # {})
       => /\ sent' # <<>>
          /\ IsCommitListing(sent'[1])
          /\ SubSeq(sent'[1], 1, 11) = SubSeq(sent[1], 1, 11)
          /\ sent'[1] # sent[1]]_vars

\* ------------------------------------------------------------ last push
\* C20: in the report, a user with a commit in the last 30 days (any_commit)
\* has no last push date.
C20_LastPushOnlyWithoutRecentCommit ==
  report # None =>
    \A i \in 1..Len(report.Summary) :
      report.Summary[i].commit_to_any_branch => report.Summary[i].last_push_seen = None

\* ------------------------------------------------------------ termination
\* check_user_activity runs on: a step that can be taken is taken. Every
\* repository listing ends (ListAnswers), every answer is finite, and a
\* rate-limit sleep is part of the one step that makes the request.
SpecLive == Spec /\ WF_vars(Next)

\* C19: every run leaves the scan loops and writes the report.
C19_Terminates == <>(pc = "done" /\ report # None)

\* -------------------------------------------------------- the 90-day scan
\* C14: the 90-day scan sets no flag and no source; a last_push_date that is
\* set is never unset and never replaced by an earlier timestamp; and while
\* the run goes on, last_push_date is the latest timestamp among the commits
\* of the user that the 90-day scans processed while the user had no 30-day
\* commit, null when there was none.
C14_FallbackKeepsLatest ==
  /\ [](pc # "crashed" => \A u \in Tracked : user_summary[u].last_push_date = latest[u])
  /\ [][\A u \in Tracked :
          /\ pc = "fallback"
               => \A f \in Flags :
                    /\ user_summary'[u][f] = user_summary[u][f]
                    /\ user_summary'[u][SourceField(f)] = user_summary[u][SourceField(f)]
          /\ user_summary[u].last_push_date # None
               => /\ user_summary'[u].last_push_date # None
                  /\ ~StrGT(user_summary[u].last_push_date.s,
                            user_summary'[u].last_push_date.s)]_vars

\* The 90-day scan of a second repository processed a commit of a user
\* without a 30-day commit, whose last push date stands at the later of the
\* two timestamps.
C14_Witness ==
  /\ pc = "save"
  /\ Len(repo_audit) = 2
  /\ U1 \in met
  /\ ~user_summary[U1].any_commit
  /\ user_summary[U1].last_push_date = Str(<<"1", "0">>)

\* -------------------------------------------------------------- two runs
\* C15: when a run that started without checkpoint entries follows, over the
\* same API and with the same arguments, a run that started without a
\* checkpoint file and returned, it does not end in an exception and its
\* Summary sheet has the same rows with the same eight values.
C15_Idempotent ==
  (first # None /\ Empty(first.resumed))
    => /\ pc # "crashed"
       /\ pc = "done" => report.Summary = first.report.Summary

\* The second run, started without checkpoint entries, has returned after
\* visiting a repository, and its Summary says the first user committed.
C15_Witness ==
  /\ first # None
  /\ Empty(first.resumed)
  /\ pc = "done"
  /\ repo_audit # <<>>
  /\ Len(report.Summary) = 2
  /\ report.Summary[1].commit_to_any_branch

\* C18: a run that starts from a non-empty checkpoint keeps every loaded key
\* with its value in the cache, and having returned it has issued the
\* requests, and written the Summary and RepoAudit sheets, of the run that
\* started without a checkpoint; the checkpoint it leaves is the one that run
\* left plus the loaded keys with their loaded values (the loaded file itself
\* when that run saved nothing).
C18_CheckpointWithoutInfluence ==
  (first # None /\ ~Empty(first.resumed))
    => /\ \A k \in DOMAIN first.resumed.data :
            k \in DOMAIN cache /\ cache[k] = first.resumed.data[k]
       /\ pc # "crashed"
       /\ pc = "done"
            => /\ history = first.history
               /\ report = first.report
               /\ IF first.saved.exists
                  THEN /\ cache_file.exists
                       /\ DOMAIN cache_file.data
                            = DOMAIN first.saved.data \cup DOMAIN first.resumed.data
                       /\ \A k \in DOMAIN cache_file.data :
                            cache_file.data[k] = IF k \in DOMAIN first.resumed.data
                                                 THEN first.resumed.data[k]
                                                 ELSE first.saved.data[k]
                  ELSE cache_file = first.resumed

\* The second run, started from a checkpoint that holds the key of a
\* repository both runs visited and a key neither met, has returned and saved.
C18_Witness ==
  /\ first # None
  /\ first.resumed.data = StaleCache
  /\ pc = "done"
  /\ first.saved.exists
  /\ \E k \in 1..Len(repo_audit) : repo_audit[k].repo \in DOMAIN first.resumed.data
  /\ Len(history) >= 6

====
